---- MODULE Spec2Model ----
(***************************************************************************)
(* Model of mtg-tag-count/mtg_tagger_to_excel.py: the construction of the  *)
(* selection rules in main() and the greedy quota scan build_deck_indices. *)
(***************************************************************************)
EXTENDS Integers, Sequences, FiniteSets, TLC

\* ------------------------------------------------------------------ bounds
MaxRows == 3
MaxQuota == 2
MaxCards == 2
MaxCalls == 3

\* ------------------------------------------------------------ value spaces
\* Column names of the table.  Either may carry a rule; a column without a
\* rule still matters when an exclusion list names it.
Attrs == {"a", "b"}

\* Python's None, the "max" of a rule without a maximum.
None == -1

Quotas == 0..MaxQuota

\* A rule in canonical shape.
RuleValues == [min : Quotas, max : Quotas \cup {None}]

\* rules: a dict from some attributes to canonical rules.
RuleSets == UNION {[S -> RuleValues] : S \in SUBSET Attrs}

\* exclude_map: a dict from some attributes to lists of attributes; an
\* attribute with an entry is vetoed by the other column.
ExcludeMaps == {[k \in S |-> Attrs \ {k}] : S \in SUBSET Attrs}

\* A row of the table is the set of columns that are true on it.
Rows == SUBSET Attrs
Tables == UNION {[1..n -> Rows] : n \in 0..MaxRows}
MainTables == UNION {[1..n -> Rows] : n \in 0..MaxCards}

\* counts.json.  A rule value is a bare integer or an object that may hold
\* "min" and "max"; the "tags" section names tag columns and the "types"
\* section type columns.
TagNames == {"a"}
TypeNames == {"b"}
RawInts == [kind : {"int"}, n : Quotas]
RawDicts == [kind : {"dict"}, d : UNION {[S -> Quotas] : S \in SUBSET {"min", "max"}}]
RawValues == RawInts \cup RawDicts
EmptyDict == [k \in {} |-> 0]
CountsFiles ==
    [tags : UNION {[S -> RawValues] : S \in SUBSET TagNames},
     types : UNION {[S -> RawValues] : S \in SUBSET TypeNames},
     exclude : ExcludeMaps]
NoCounts == [tags |-> EmptyDict, types |-> EmptyDict, exclude |-> EmptyDict]

\* cards.txt, tags.txt, types.txt and what Scryfall and the tagger hold for
\* each card: its raw tags and the words of its type line.
CardNames == {"c1", "c2"}
RawTagNames == {"tutor", "tutor-land"}
RawTypeNames == {"land"}
CardFiles == UNION {[1..n -> CardNames] : n \in 0..MaxCards}
Sites == [CardNames -> [tags : SUBSET RawTagNames, types : SUBSET RawTypeNames]]

\* The rules and exclusions of the runs that fetch the table and then select
\* from it: rules on the 'tutor' tag and the 'land' type.
DeckAttrs == {"tutor", "land"}
DeckRuleValues == {[min |-> 1, max |-> None], [min |-> 1, max |-> 1]}
DeckRuleSets == UNION {[S -> DeckRuleValues] : S \in SUBSET DeckAttrs}
DeckExcludeMaps == {EmptyDict, [k \in {"tutor"} |-> {"tutor-land"}]}

\* mtg_tagger_count.py: the arguments get_card_info and get_tagger_tags are
\* called with, and what the services answer. A tagger answer is the set of
\* taggings of the card, each a tag name with its status.
InfoNameArgs == {"Bolt", "bolt", "Opt"}
SetCodeArgs == {"LEA", "lea"}
NumberArgs == {"1", "2"}
InfoAnswers == {"i1", "i2"}
Taggings == {[name |-> "Ramp", status |-> "GOOD_STANDING"],
             [name |-> "draw", status |-> "PENDING"]}
TagAnswers == SUBSET Taggings
NoValue == ""
NoCall == [args |-> <<"none", "", "">>, requests |-> 0, raised |-> FALSE, value |-> NoValue]

\* mtg_tagger_count.py main: the lines of cards.txt, tags.txt and types.txt,
\* the card Scryfall returns for a name, and the cache a previous run left.
CountCardFiles == UNION {[1..n -> InfoNameArgs] : n \in 0..MaxCards}
TargetTagFiles == SUBSET {"ramp", "draw"}
TargetTypeFiles == SUBSET {"instant"}
ScryfallCard(card_name) ==
    IF card_name \in {"Bolt", "bolt"}
        THEN [set |-> "LEA", collector_number |-> "1", type_line |-> {"instant"}]
        ELSE [set |-> "lea", collector_number |-> "2", type_line |-> {"instant"}]
Unbound == {}

\* spotify_client.py: the cache lifetime in seconds, the instants the clock is
\* observed at, the genres typed, and the artists Spotify knows. No two
\* artists of the pool agree on both popularity and followers, so the name,
\* last key of the sort, never decides.
Day == 86400
Times == {0, Day - 1, Day, 2 * Day - 1, 2 * Day}
GenreArgs == {"Drum And Bass ", "drum and bass", "drum_and_bass", "techno"}
ArtistPool ==
    {[id |-> "a1", followers |-> 10, popularity |-> 50],
     [id |-> "a2", followers |-> 20, popularity |-> 40],
     [id |-> "a3", followers |-> 20, popularity |-> 60]}
NoSearch == [nth |-> 0, genre |-> "", searches |-> 0, value |-> <<>>]

\* get_top_tracks_from_top_artists: the track ids, the top-track lists an
\* artist can have, what Spotify holds, and the arguments of a call.
TrackIds == {"t1", "t2"}
TopTrackLists ==
    {q \in UNION {[1..n -> TrackIds] : n \in 0..Cardinality(TrackIds)} :
        \A x, y \in DOMAIN q : x # y => q[x] # q[y]}
ArtistIds == {a.id : a \in ArtistPool}
Catalogs == [ArtistIds -> TopTrackLists]
PlaylistArgs ==
    [genre : {"techno"}, num_artists : {1, Cardinality(ArtistPool)}, tracks_per_artist : 1..2]
\* what a search of the genre finds: nobody, or every artist of the pool
PlaylistFinds == {{}, ArtistPool}
NoPlaylist == [args |-> EmptyDict, cached |-> FALSE, value |-> <<>>]

\* main.py: the lines a user types at the prompts of the playlist menu.
GenreLines == {"", "techno", " jazz "}
TypedLines == {"", "  ", "0", "1", "7", "10", " 10 ", "11", "50", "51", "abc"}
Retry == -1

VARIABLES
    counts,       \* main: the parsed counts.json
    df,           \* the attribute table, indexed 1..len(rows)
    rules,        \* attribute -> [min, max]
    exclude_map,  \* attribute -> set of vetoing attributes
    tally,        \* build_deck_indices: tally
    selected,     \* build_deck_indices: selected
    i,            \* index of the next row df.iterrows() yields
    pc,           \* "config", "fetch", "call" in main; "scan" in the loop; "done"
    result,       \* the value build_deck_indices returned
    prev,         \* outcome of an earlier build_deck_indices call on the same inputs
    cards,        \* main: the card names of cards.txt, in file order
    t_tags,       \* main: the tracked tags of tags.txt
    t_types,      \* main: the tracked types
    site,         \* what the services answer: card name -> raw tags and types
    completed,    \* main: the futures as_completed has yielded, in that order
    result_map,   \* main: card name -> (row, raw_tags) of a collected future
    raw_tags_list, \* main: the raw tags of each table row
    cache,        \* mtg_tagger_count.py: the shelve cache, key -> stored value
    served,       \* the calls that fetched successfully, in order, with their answer
    last,         \* the latest call: arguments, HTTP requests sent, raised, return value
    ncalls,       \* number of get_card_info / get_tagger_tags calls made
    tag_counts,   \* mtg_tagger_count.py main: target tag -> count
    type_counts,  \* mtg_tagger_count.py main: target type -> count
    info_cached,  \* main: info_key in cache, for the card being processed
    tags_cached,  \* main: tags_key in cache; unbound until first assigned
    card_no,      \* main: position in cards of the next card of the for loop
    reported,     \* main: positions of the cards an error was printed for
    printed,      \* main: the tallies printed at the end
    now,          \* spotify_client.py: time.time()
    files,        \* the cache directory: file name -> [mtime, data]
    sp_last,      \* the latest search_artists_by_genre call and what it returned
    catalog,      \* what Spotify holds: artist id -> list of top track ids
    call,         \* get_top_tracks_from_top_artists: the arguments of the call
    artists_sorted_desc,  \* the artists of the running call, most followed first
    artist_track_lists,   \* artist id -> [top_tracks, assigned_tracks]
    track_assignments,    \* track id -> [id, followers] of the artist credited
    pass_pos,     \* position in artists_sorted_asc of the pass under way
    returned,     \* the latest get_top_tracks_from_top_artists call and its value
    menu_genre,   \* main.py playlist menu: genre
    typed_artists, \* the line that ended the "How many top artists?" prompt
    typed_tracks, \* the line that ended the "Tracks per artist?" prompt
    num_artists,  \* menu: num_artists
    tracks_per_artist, \* menu: tracks_per_artist
    passed        \* the arguments handed to get_top_tracks_from_top_artists

selVars == <<counts, df, rules, exclude_map, tally, selected, i, result>>
fetchVars == <<cards, t_tags, t_types, site, completed, result_map, raw_tags_list>>
cacheVars == <<cache, served, last, ncalls>>
countVars == <<tag_counts, type_counts, info_cached, tags_cached, card_no, reported, printed>>
spotifyVars == <<now, files, sp_last, catalog, call, artists_sorted_desc,
                 artist_track_lists, track_assignments, pass_pos, returned>>
menuVars == <<menu_genre, typed_artists, typed_tracks, num_artists, tracks_per_artist, passed>>
vars == <<selVars, pc, prev, fetchVars, cacheVars, countVars, spotifyVars, menuVars>>

\* --------------------------------------------------- main: rule construction
\* isinstance(v, dict)
IsDict(v) == v.kind = "dict"

\* v.get(key, default)
DictGet(d, key, default) == IF key \in DOMAIN d THEN d[key] ELSE default

\* Faulty variant: a bare integer is taken as maximum as well as minimum.
NormaliseRuleIntAsMax(v) ==
    [min |-> IF IsDict(v) THEN DictGet(v.d, "min", 0) ELSE v.n,
     max |-> IF IsDict(v) THEN DictGet(v.d, "max", None) ELSE v.n]

\* {"min": v.get("min", 0) if isinstance(v, dict) else v,
\*  "max": v.get("max") if isinstance(v, dict) else None}
NormaliseRule(v) ==
    [min |-> IF IsDict(v) THEN DictGet(v.d, "min", 0) ELSE v.n,
     max |-> IF IsDict(v) THEN DictGet(v.d, "max", None) ELSE None]

\* rules = {}; the "tags" loop, then the "types" loop (a later assignment to
\* the same key replaces the earlier one)
BuildRules(c) ==
    [k \in DOMAIN c.tags \cup DOMAIN c.types |->
        IF k \in DOMAIN c.types
            THEN NormaliseRule(c.types[k])
            ELSE NormaliseRule(c.tags[k])]

\* exclude_map = {k: list(v) for k, v in counts.get("exclude", {}).items()}
BuildExclude(c) == [k \in DOMAIN c.exclude |-> c.exclude[k]]

\* ------------------------------------------------------- build_deck_indices
\* row.get(k, False)
RowGet(row, k) == k \in row

\* exclude_map.get(k, [])
ExcludeGet(k) == IF k \in DOMAIN exclude_map THEN exclude_map[k] ELSE {}

\* tally = {k: 0 for k in rules}
InitTally(rs) == [k \in DOMAIN rs |-> 0]

\* Faulty variant: a row is irrelevant only when no column at all is true on it.
IrrelevantAnyColumn(row) == row = {}

\* not any(row.get(k, False) for k in rules)
Irrelevant(row) == ~ \E k \in DOMAIN rules : RowGet(row, k)

\* Faulty variant: the maximum test is left out.
AtMaxIgnored(row) == FALSE

\* Faulty variant: the veto waits until the tally has passed the maximum.
AtMaxOffByOne(row) ==
    \E k \in DOMAIN rules :
        /\ rules[k].max # None
        /\ RowGet(row, k)
        /\ tally[k] > rules[k].max

\* any(max is not None and row.get(k) and tally[k] >= max for k in rules)
AtMax(row) ==
    \E k \in DOMAIN rules :
        /\ rules[k].max # None
        /\ RowGet(row, k)
        /\ tally[k] >= rules[k].max

\* Faulty variant: the exclusion lists are not consulted.
PrimaryNoExclusion(row) ==
    {k \in DOMAIN rules :
        /\ tally[k] < rules[k].min
        /\ RowGet(row, k)}

\* Faulty variant: an attribute still counts as needed when its tally equals its minimum.
PrimaryOffByOne(row) ==
    {k \in DOMAIN rules :
        /\ tally[k] <= rules[k].min
        /\ RowGet(row, k)
        /\ ~ \E ex \in ExcludeGet(k) : RowGet(row, ex)}

\* primary = [k for k in rules if tally[k] < min and row.get(k)
\*            and not any(row.get(ex) for ex in exclude_map.get(k, []))]
Primary(row) ==
    {k \in DOMAIN rules :
        /\ tally[k] < rules[k].min
        /\ RowGet(row, k)
        /\ ~ \E ex \in ExcludeGet(k) : RowGet(row, ex)}

\* for k in primary: tally[k] += 1
AddPrimary(t, prim) == [k \in DOMAIN t |-> IF k \in prim THEN t[k] + 1 ELSE t[k]]

\* Faulty variant: the extras honour the exclusion lists like the primary ones.
ExtrasWithExclusion(row, prim, t) ==
    {k \in DOMAIN rules :
        /\ k \notin prim
        /\ RowGet(row, k)
        /\ rules[k].max # None
        /\ t[k] < rules[k].max
        /\ ~ \E ex \in ExcludeGet(k) : RowGet(row, ex)}

\* Faulty variant: the extras forget to leave out the primary attributes.
ExtrasWithPrimary(row, prim, t) ==
    {k \in DOMAIN rules :
        /\ RowGet(row, k)
        /\ rules[k].max # None
        /\ t[k] < rules[k].max}

\* Faulty variant: the extras also count the attributes that have no maximum.
ExtrasWithoutMax(row, prim, t) ==
    {k \in DOMAIN rules :
        /\ k \notin prim
        /\ RowGet(row, k)
        /\ (rules[k].max = None \/ t[k] < rules[k].max)}

\* extras = [k for k in rules if k not in primary and row.get(k)
\*           and max is not None and tally[k] < max]   (tally after primary)
Extras(row, prim, t) ==
    {k \in DOMAIN rules :
        /\ k \notin prim
        /\ RowGet(row, k)
        /\ rules[k].max # None
        /\ t[k] < rules[k].max}

\* for k in extras: tally[k] += 1
AddExtras(t, ext) == [k \in DOMAIN t |-> IF k \in ext THEN t[k] + 1 ELSE t[k]]

\* Faulty variant: the loop breaks only once every tally has passed its minimum.
AllMetStrict(t) == \A k \in DOMAIN rules : t[k] > rules[k].min

\* Faulty variant: the loop breaks as soon as one attribute has met its minimum.
AnyMet(t) == \E k \in DOMAIN rules : t[k] >= rules[k].min

\* all(tally[k] >= rules[k]["min"] for k in rules)
AllMet(t) == \A k \in DOMAIN rules : t[k] >= rules[k].min

\* Faulty variant: the accepted row is put in front of the list.
SelectedPrepend(sel, idx) == <<idx>> \o sel

\* selected.append(idx)
SelectedAppend(sel, idx) == Append(sel, idx)

\* Faulty variant: the tally is handed back together with the selection.
ReturnValueWithTally(sel, t) == [selected |-> sel, tally |-> t]

\* return selected
ReturnValue(sel, t) == [selected |-> sel]

NoResult == EmptyDict

Scanning == pc = "scan" /\ i <= Len(df)

\* if not any(...): continue
SkipIrrelevant ==
    /\ Scanning
    /\ Irrelevant(df[i])
    /\ i' = i + 1
    /\ UNCHANGED <<counts, df, rules, exclude_map, tally, selected, pc, result>>
    /\ UNCHANGED <<prev, fetchVars, cacheVars, countVars, spotifyVars, menuVars>>

\* if any(... at max ...): continue
SkipAtMax ==
    /\ Scanning
    /\ ~ Irrelevant(df[i])
    /\ AtMax(df[i])
    /\ i' = i + 1
    /\ UNCHANGED <<counts, df, rules, exclude_map, tally, selected, pc, result>>
    /\ UNCHANGED <<prev, fetchVars, cacheVars, countVars, spotifyVars, menuVars>>

\* Faulty variant: the break test also runs for a row without primary attribute.
SkipNoPrimaryThenBreak ==
    /\ Scanning
    /\ ~ Irrelevant(df[i])
    /\ ~ AtMax(df[i])
    /\ Primary(df[i]) = {}
    /\ i' = i + 1
    /\ IF AllMet(tally)
          THEN pc' = "done" /\ result' = ReturnValue(selected, tally)
          ELSE UNCHANGED <<pc, result>>
    /\ UNCHANGED <<counts, df, rules, exclude_map, tally, selected>>
    /\ UNCHANGED <<prev, fetchVars, cacheVars, countVars, spotifyVars, menuVars>>

\* if not primary: continue
SkipNoPrimary ==
    /\ Scanning
    /\ ~ Irrelevant(df[i])
    /\ ~ AtMax(df[i])
    /\ Primary(df[i]) = {}
    /\ i' = i + 1
    /\ UNCHANGED <<counts, df, rules, exclude_map, tally, selected, pc, result>>
    /\ UNCHANGED <<prev, fetchVars, cacheVars, countVars, spotifyVars, menuVars>>

\* selected.append(idx); tally updates; break when every minimum is met
Accept ==
    /\ Scanning
    /\ ~ Irrelevant(df[i])
    /\ ~ AtMax(df[i])
    /\ Primary(df[i]) # {}
    /\ LET row  == df[i]
           prim == Primary(row)
           t1   == AddPrimary(tally, prim)
           t2   == AddExtras(t1, Extras(row, prim, t1))
           sel  == SelectedAppend(selected, i)
       IN /\ selected' = sel
          /\ tally' = t2
          /\ i' = i + 1
          /\ IF AllMet(t2)
                THEN /\ pc' = "done"
                     /\ result' = ReturnValue(sel, t2)
                ELSE UNCHANGED <<pc, result>>
    /\ UNCHANGED <<counts, df, rules, exclude_map>>
    /\ UNCHANGED <<prev, fetchVars, cacheVars, countVars, spotifyVars, menuVars>>

\* the for loop runs out of rows; return selected
Exhausted ==
    /\ pc = "scan"
    /\ i > Len(df)
    /\ pc' = "done"
    /\ result' = ReturnValue(selected, tally)
    /\ UNCHANGED <<counts, df, rules, exclude_map, tally, selected, i>>
    /\ UNCHANGED <<prev, fetchVars, cacheVars, countVars, spotifyVars, menuVars>>

\* No card has been submitted for fetching.
FetchIdle ==
    /\ cards = <<>>
    /\ t_tags = {}
    /\ t_types = {}
    /\ site = EmptyDict
    /\ completed = <<>>
    /\ result_map = EmptyDict
    /\ raw_tags_list = <<>>

\* The cache is open and empty and no call has been made.
CacheIdle ==
    /\ cache = EmptyDict
    /\ served = <<>>
    /\ last = NoCall
    /\ ncalls = 0

\* No Spotify call has been made and the cache directory is empty.
SpotifyIdle ==
    /\ now = 0
    /\ files = EmptyDict
    /\ sp_last = EmptyDict
    /\ catalog = EmptyDict
    /\ call = EmptyDict
    /\ artists_sorted_desc = <<>>
    /\ artist_track_lists = EmptyDict
    /\ track_assignments = EmptyDict
    /\ pass_pos = 1
    /\ returned = EmptyDict

\* The playlist-builder menu has not been opened.
MenuIdle ==
    /\ menu_genre = ""
    /\ typed_artists = ""
    /\ typed_tracks = ""
    /\ num_artists = 0
    /\ tracks_per_artist = 0
    /\ passed = EmptyDict

\* mtg_tagger_count.py main has not started.
CountIdle ==
    /\ tag_counts = EmptyDict
    /\ type_counts = EmptyDict
    /\ info_cached = FALSE
    /\ tags_cached = Unbound
    /\ card_no = 1
    /\ reported = {}
    /\ printed = EmptyDict

Init ==
    /\ counts = NoCounts
    /\ df \in Tables
    /\ rules \in RuleSets
    /\ exclude_map \in ExcludeMaps
    /\ tally = InitTally(rules)
    /\ selected = <<>>
    /\ i = 1
    /\ pc = "scan"
    /\ result = NoResult
    /\ prev = NoResult
    /\ FetchIdle
    /\ CacheIdle
    /\ CountIdle
    /\ SpotifyIdle
    /\ MenuIdle

Next ==
    \/ SkipIrrelevant
    \/ SkipAtMax
    \/ SkipNoPrimary
    \/ Accept
    \/ Exhausted

Spec == Init /\ [][Next]_vars

\* ------------------------------------------------------------------- main
\* counts = json.load(...); exclude_map and rules are built from it
LoadConfig ==
    /\ pc = "config"
    /\ rules' = BuildRules(counts)
    /\ exclude_map' = BuildExclude(counts)
    /\ pc' = "fetch"
    /\ UNCHANGED <<counts, df, tally, selected, i, result>>
    /\ UNCHANGED <<prev, fetchVars, cacheVars, countVars, spotifyVars, menuVars>>

\* the rows fetched for the cards become the table, indexed from 1
FetchTable ==
    /\ pc = "fetch"
    /\ \E t \in MainTables : df' = t
    /\ pc' = "call"
    /\ UNCHANGED <<counts, rules, exclude_map, tally, selected, i, result>>
    /\ UNCHANGED <<prev, fetchVars, cacheVars, countVars, spotifyVars, menuVars>>

\* selected_indices = build_deck_indices(df, rules, exclude_map)
CallSelector ==
    /\ pc = "call"
    /\ tally' = InitTally(rules)
    /\ selected' = <<>>
    /\ i' = 1
    /\ pc' = "scan"
    /\ UNCHANGED <<counts, df, rules, exclude_map, result>>
    /\ UNCHANGED <<prev, fetchVars, cacheVars, countVars, spotifyVars, menuVars>>

InitMain ==
    /\ counts \in CountsFiles
    /\ df = <<>>
    /\ rules = EmptyDict
    /\ exclude_map = EmptyDict
    /\ tally = EmptyDict
    /\ selected = <<>>
    /\ i = 1
    /\ pc = "config"
    /\ result = NoResult
    /\ prev = NoResult
    /\ FetchIdle
    /\ CacheIdle
    /\ CountIdle
    /\ SpotifyIdle
    /\ MenuIdle

NextMain ==
    \/ LoadConfig
    \/ FetchTable
    \/ CallSelector
    \/ SkipIrrelevant
    \/ SkipAtMax
    \/ SkipNoPrimary
    \/ Accept
    \/ Exhausted

SpecMain == InitMain /\ [][NextMain]_vars

\* ------------------------------------------- build_deck_indices, called twice
\* Faulty variant: the tally of the earlier call is still there at the second.
ReinvokeKeepingTally ==
    /\ pc = "done"
    /\ DOMAIN prev = {}
    /\ prev' = [result |-> result, tally |-> tally]
    /\ selected' = <<>>
    /\ i' = 1
    /\ pc' = "scan"
    /\ result' = NoResult
    /\ UNCHANGED <<counts, df, rules, exclude_map, tally, fetchVars, cacheVars, countVars, spotifyVars, menuVars>>

\* The caller keeps the outcome and calls build_deck_indices(df, rules,
\* exclude_map) once more: tally and selected are created afresh.
Reinvoke ==
    /\ pc = "done"
    /\ DOMAIN prev = {}
    /\ prev' = [result |-> result, tally |-> tally]
    /\ tally' = InitTally(rules)
    /\ selected' = <<>>
    /\ i' = 1
    /\ pc' = "scan"
    /\ result' = NoResult
    /\ UNCHANGED <<counts, df, rules, exclude_map, fetchVars, cacheVars, countVars, spotifyVars, menuVars>>

InitTwice ==
    /\ counts = NoCounts
    /\ df \in MainTables
    /\ rules \in RuleSets
    /\ exclude_map \in ExcludeMaps
    /\ tally = InitTally(rules)
    /\ selected = <<>>
    /\ i = 1
    /\ pc = "scan"
    /\ result = NoResult
    /\ prev = NoResult
    /\ FetchIdle
    /\ CacheIdle
    /\ CountIdle
    /\ SpotifyIdle
    /\ MenuIdle

NextTwice ==
    \/ SkipIrrelevant
    \/ SkipAtMax
    \/ SkipNoPrimary
    \/ Accept
    \/ Exhausted
    \/ Reinvoke

SpecTwice == InitTwice /\ [][NextTwice]_vars

\* ------------------------------------------------- main: fetch and table
\* fetch_card_data(card, t_tags, t_types): the row (its true columns) and the
\* raw tags of the card
FetchCardData(card) ==
    [row |-> {t \in t_tags : t \in site[card].tags}
                \cup {tp \in t_types : tp \in site[card].types},
     raw |-> site[card].tags]

\* the futures as_completed has not yielded yet (one future per line of cards)
Pending == (1..Len(cards)) \ {completed[j] : j \in 1..Len(completed)}

\* df.columns
Columns == {"Image", "Card"} \cup t_tags \cup t_types

\* Faulty variant: the rows are appended as the futures complete.
RowsAsCompleted == [idx \in 1..Len(completed) |-> result_map[cards[completed[idx]]].row]

\* rows = [result_map[c][0] for c in cards]
RowsInCardOrder == [idx \in 1..Len(cards) |-> result_map[cards[idx]].row]

\* raw_tags_list = [result_map[c][2] for c in cards]
RawTagsInCardOrder == [idx \in 1..Len(cards) |-> result_map[cards[idx]].raw]

\* for future in as_completed(futures): result_map[c] = future.result()
Collect ==
    /\ pc = "collect"
    /\ \E f \in Pending :
        /\ completed' = Append(completed, f)
        /\ result_map' =
              [c \in DOMAIN result_map \cup {cards[f]} |->
                  IF c = cards[f] THEN FetchCardData(cards[f]) ELSE result_map[c]]
    /\ UNCHANGED <<selVars, pc, prev, cards, t_tags, t_types, site, raw_tags_list,
                   cacheVars, countVars, spotifyVars, menuVars>>

\* future.result() re-raises the error of a failed fetch and main ends
FetchRaises ==
    /\ pc = "collect"
    /\ Pending # {}
    /\ pc' = "aborted"
    /\ UNCHANGED <<selVars, prev, fetchVars, cacheVars, countVars, spotifyVars, menuVars>>

\* rows, raw_tags_list and df are built in the order of cards
AssembleTable ==
    /\ pc = "collect"
    /\ Pending = {}
    /\ raw_tags_list' = RawTagsInCardOrder
    /\ df' = RowsInCardOrder
    /\ pc' = "clear"
    /\ UNCHANGED <<counts, rules, exclude_map, tally, selected, i, result>>
    /\ UNCHANGED <<prev, cards, t_tags, t_types, site, completed, result_map,
                   cacheVars, countVars, spotifyVars, menuVars>>

\* Faulty variant: the flag is cleared only on a row whose 'tutor-land' column
\* is true, that is only when 'tutor-land' is a tracked tag.
ClearTutorWhenTracked ==
    /\ pc = "clear"
    /\ df' = [idx \in 1..Len(df) |->
                IF "tutor" \in Columns /\ "tutor-land" \in df[idx]
                    THEN df[idx] \ {"tutor"}
                    ELSE df[idx]]
    /\ pc' = "call"
    /\ UNCHANGED <<counts, rules, exclude_map, tally, selected, i, result>>
    /\ UNCHANGED <<prev, fetchVars, cacheVars, countVars, spotifyVars, menuVars>>

\* if "tutor" in df.columns and "tutor-land" in rt: df.at[idx, "tutor"] = False
ClearTutor ==
    /\ pc = "clear"
    /\ df' = [idx \in 1..Len(df) |->
                IF "tutor" \in Columns /\ "tutor-land" \in raw_tags_list[idx]
                    THEN df[idx] \ {"tutor"}
                    ELSE df[idx]]
    /\ pc' = "call"
    /\ UNCHANGED <<counts, rules, exclude_map, tally, selected, i, result>>
    /\ UNCHANGED <<prev, fetchVars, cacheVars, countVars, spotifyVars, menuVars>>

InitFetch ==
    /\ counts = NoCounts
    /\ df = <<>>
    /\ rules = EmptyDict
    /\ exclude_map = EmptyDict
    /\ tally = EmptyDict
    /\ selected = <<>>
    /\ i = 1
    /\ result = NoResult
    /\ prev = NoResult
    /\ pc = "collect"
    /\ cards \in CardFiles
    /\ t_tags \in SUBSET RawTagNames
    /\ t_types \in SUBSET RawTypeNames
    /\ site \in Sites
    /\ completed = <<>>
    /\ result_map = EmptyDict
    /\ raw_tags_list = <<>>
    /\ CacheIdle
    /\ CountIdle
    /\ SpotifyIdle
    /\ MenuIdle

NextFetch ==
    \/ Collect
    \/ FetchRaises
    \/ AssembleTable
    \/ ClearTutor

SpecFetch == InitFetch /\ [][NextFetch]_vars

\* ---------------------------------------- main: fetch, clear, then select
InitDeck ==
    /\ counts = NoCounts
    /\ df = <<>>
    /\ rules \in DeckRuleSets
    /\ exclude_map \in DeckExcludeMaps
    /\ tally = EmptyDict
    /\ selected = <<>>
    /\ i = 1
    /\ result = NoResult
    /\ prev = NoResult
    /\ pc = "collect"
    /\ cards \in CardFiles
    /\ t_tags \in SUBSET RawTagNames
    /\ t_types \in SUBSET RawTypeNames
    /\ site \in Sites
    /\ completed = <<>>
    /\ result_map = EmptyDict
    /\ raw_tags_list = <<>>
    /\ CacheIdle
    /\ CountIdle
    /\ SpotifyIdle
    /\ MenuIdle

NextDeck ==
    \/ Collect
    \/ FetchRaises
    \/ AssembleTable
    \/ ClearTutor
    \/ CallSelector
    \/ SkipIrrelevant
    \/ SkipAtMax
    \/ SkipNoPrimary
    \/ Accept
    \/ Exhausted

SpecDeck == InitDeck /\ [][NextDeck]_vars

\* ------------------------------------------- mtg_tagger_count.py: the cache
\* str.lower() on the strings the model uses.
LowerCase(s) ==
    CASE s = "Bolt" -> "bolt"
      [] s = "LEA" -> "lea"
      [] s = "Ramp" -> "ramp"
      [] OTHER -> s

\* Faulty variant: the card name enters the key as it was typed.
InfoKeyCaseSensitive(card_name) == <<"info", card_name, "">>

\* key = f"info:{card_name.lower()}"
InfoKey(card_name) == <<"info", LowerCase(card_name), "">>

\* key = f"tags:{set_code.lower()}:{collector_number}"
TagsKey(set_code, collector_number) == <<"tags", LowerCase(set_code), collector_number>>

\* cache[key] = value
CachePut(key, value) ==
    [k \in DOMAIN cache \cup {key} |-> IF k = key THEN value ELSE cache[k]]

\* list(tags): the elements of the set in some order
SetToList(S) ==
    CHOOSE q \in [1..Cardinality(S) -> S] : {q[j] : j \in 1..Cardinality(S)} = S

\* set(cache[key])
ListToSet(l) == {l[j] : j \in DOMAIN l}

\* The names of the GOOD_STANDING taggings, lower-cased.
GoodStandingTags(answer) ==
    {LowerCase(t.name) : t \in {x \in answer : x.status = "GOOD_STANDING"}}

\* One more call may be made.
CanCall == pc = "calls" /\ ncalls < MaxCalls

\* get_card_info, key in cache: return cache[key]
CardInfoHit(card_name) ==
    /\ CanCall
    /\ InfoKey(card_name) \in DOMAIN cache
    /\ last' = [args |-> <<"info", card_name, "">>, requests |-> 0,
                raised |-> FALSE, value |-> cache[InfoKey(card_name)]]
    /\ ncalls' = ncalls + 1
    /\ UNCHANGED <<selVars, pc, prev, fetchVars, cache, served, countVars, spotifyVars, menuVars>>

\* get_card_info, key not in cache, the request succeeds: store and return
CardInfoFetch(card_name, info) ==
    /\ CanCall
    /\ InfoKey(card_name) \notin DOMAIN cache
    /\ cache' = CachePut(InfoKey(card_name), info)
    /\ served' = Append(served, [args |-> <<"info", card_name, "">>, answer |-> info])
    /\ last' = [args |-> <<"info", card_name, "">>, requests |-> 1,
                raised |-> FALSE, value |-> info]
    /\ ncalls' = ncalls + 1
    /\ UNCHANGED <<selVars, pc, prev, fetchVars, countVars, spotifyVars, menuVars>>

\* get_card_info, key not in cache, resp.raise_for_status() raises
CardInfoRaises(card_name) ==
    /\ CanCall
    /\ InfoKey(card_name) \notin DOMAIN cache
    /\ last' = [args |-> <<"info", card_name, "">>, requests |-> 1,
                raised |-> TRUE, value |-> NoValue]
    /\ ncalls' = ncalls + 1
    /\ UNCHANGED <<selVars, pc, prev, fetchVars, cache, served, countVars, spotifyVars, menuVars>>

\* get_tagger_tags, key in cache: return set(cache[key])
TaggerTagsHit(set_code, collector_number) ==
    /\ CanCall
    /\ TagsKey(set_code, collector_number) \in DOMAIN cache
    /\ last' = [args |-> <<"tags", set_code, collector_number>>, requests |-> 0,
                raised |-> FALSE,
                value |-> ListToSet(cache[TagsKey(set_code, collector_number)])]
    /\ ncalls' = ncalls + 1
    /\ UNCHANGED <<selVars, pc, prev, fetchVars, cache, served, countVars, spotifyVars, menuVars>>

\* get_tagger_tags, key not in cache, the page and the query both succeed
TaggerTagsFetch(set_code, collector_number, answer) ==
    /\ CanCall
    /\ TagsKey(set_code, collector_number) \notin DOMAIN cache
    /\ cache' = CachePut(TagsKey(set_code, collector_number),
                         SetToList(GoodStandingTags(answer)))
    /\ served' = Append(served, [args |-> <<"tags", set_code, collector_number>>,
                                 answer |-> GoodStandingTags(answer)])
    /\ last' = [args |-> <<"tags", set_code, collector_number>>, requests |-> 2,
                raised |-> FALSE, value |-> GoodStandingTags(answer)]
    /\ ncalls' = ncalls + 1
    /\ UNCHANGED <<selVars, pc, prev, fetchVars, countVars, spotifyVars, menuVars>>

\* get_tagger_tags, key not in cache: the page request fails or carries no
\* CSRF token (one request sent) or the query fails (two requests sent)
TaggerTagsRaises(set_code, collector_number, sent) ==
    /\ CanCall
    /\ TagsKey(set_code, collector_number) \notin DOMAIN cache
    /\ last' = [args |-> <<"tags", set_code, collector_number>>, requests |-> sent,
                raised |-> TRUE, value |-> NoValue]
    /\ ncalls' = ncalls + 1
    /\ UNCHANGED <<selVars, pc, prev, fetchVars, cache, served, countVars, spotifyVars, menuVars>>

InitCache ==
    /\ counts = NoCounts
    /\ df = <<>>
    /\ rules = EmptyDict
    /\ exclude_map = EmptyDict
    /\ tally = EmptyDict
    /\ selected = <<>>
    /\ i = 1
    /\ result = NoResult
    /\ prev = NoResult
    /\ pc = "calls"
    /\ FetchIdle
    /\ CacheIdle
    /\ CountIdle
    /\ SpotifyIdle
    /\ MenuIdle

NextCache ==
    \/ \E card_name \in InfoNameArgs : CardInfoHit(card_name)
    \/ \E card_name \in InfoNameArgs, info \in InfoAnswers : CardInfoFetch(card_name, info)
    \/ \E card_name \in InfoNameArgs : CardInfoRaises(card_name)
    \/ \E set_code \in SetCodeArgs, n \in NumberArgs : TaggerTagsHit(set_code, n)
    \/ \E set_code \in SetCodeArgs, n \in NumberArgs, answer \in TagAnswers :
          TaggerTagsFetch(set_code, n, answer)
    \/ \E set_code \in SetCodeArgs, n \in NumberArgs, sent \in {1, 2} :
          TaggerTagsRaises(set_code, n, sent)

SpecCache == InitCache /\ [][NextCache]_vars

\* ------------------------------------------------ mtg_tagger_count.py: main
\* c[key] = value on a cache c
Store(c, key, value) == [k \in DOMAIN c \cup {key} |-> IF k = key THEN value ELSE c[k]]

\* The caches an earlier run can have left behind: any of the card of "bolt"
\* and the tags of that card.
PreviousCaches ==
    {EmptyDict,
     Store(EmptyDict, InfoKey("Bolt"), ScryfallCard("Bolt")),
     Store(EmptyDict, TagsKey("LEA", "1"), <<"ramp">>),
     Store(Store(EmptyDict, InfoKey("Bolt"), ScryfallCard("Bolt")),
           TagsKey("LEA", "1"), <<"ramp">>)}

\* info_cached = info_key in cache
InfoCached(card) == InfoKey(card) \in DOMAIN cache

\* info = get_card_info(card), when it returns
CardInfo(card) == IF InfoCached(card) THEN cache[InfoKey(card)] ELSE ScryfallCard(card)

\* the cache after get_card_info(card) returned
CacheAfterInfo(card) ==
    IF InfoCached(card) THEN cache ELSE Store(cache, InfoKey(card), ScryfallCard(card))

\* tags_key of the card being processed
CardTagsKey(card) == TagsKey(CardInfo(card).set, CardInfo(card).collector_number)

\* for t in targets: if t in found: counts[t] += 1
CountFound(c, found) == [t \in DOMAIN c |-> IF t \in found THEN c[t] + 1 ELSE c[t]]

\* finally: "not (info_cached and tags_cached)" reads tags_cached, and fails
\* when that name is still unbound, unless info_cached is false
FinallyRaises(ic, tc) == ic /\ tc = Unbound

\* the for loop is at a card
AtCard == pc = "count" /\ card_no <= Len(cards)

\* Faulty variant: the error of get_card_info is not caught.
CardInfoLookupUncaught ==
    /\ AtCard
    /\ ~ InfoCached(cards[card_no])
    /\ info_cached' = FALSE
    /\ pc' = "aborted"
    /\ UNCHANGED <<tag_counts, type_counts, tags_cached, card_no, reported, printed>>
    /\ UNCHANGED <<selVars, prev, fetchVars, cacheVars, spotifyVars, menuVars>>

\* get_card_info(card) raises; except prints the error; finally
CardInfoLookupRaises ==
    /\ AtCard
    /\ ~ InfoCached(cards[card_no])
    /\ info_cached' = FALSE
    /\ reported' = reported \cup {card_no}
    /\ pc' = IF FinallyRaises(FALSE, tags_cached) THEN "aborted" ELSE "count"
    /\ card_no' = card_no + 1
    /\ UNCHANGED <<tag_counts, type_counts, tags_cached, printed>>
    /\ UNCHANGED <<selVars, prev, fetchVars, cacheVars, spotifyVars, menuVars>>

\* get_card_info(card) returns, get_tagger_tags raises; except; finally
TagLookupRaises ==
    /\ AtCard
    /\ CardTagsKey(cards[card_no]) \notin DOMAIN cache
    /\ info_cached' = InfoCached(cards[card_no])
    /\ cache' = CacheAfterInfo(cards[card_no])
    /\ tags_cached' = {FALSE}
    /\ reported' = reported \cup {card_no}
    /\ pc' = IF FinallyRaises(InfoCached(cards[card_no]), {FALSE}) THEN "aborted" ELSE "count"
    /\ card_no' = card_no + 1
    /\ UNCHANGED <<tag_counts, type_counts, printed>>
    /\ UNCHANGED <<selVars, prev, fetchVars, served, last, ncalls, spotifyVars, menuVars>>

\* both lookups return: the target tags and types of the card are counted
CardCounted ==
    /\ AtCard
    /\ \E answer \in TagAnswers :
        LET card  == cards[card_no]
            info  == CardInfo(card)
            key   == CardTagsKey(card)
            hit   == key \in DOMAIN cache
            found == IF hit THEN ListToSet(cache[key]) ELSE GoodStandingTags(answer)
        IN /\ info_cached' = InfoCached(card)
           /\ tags_cached' = {hit}
           /\ cache' = IF hit THEN CacheAfterInfo(card)
                             ELSE Store(CacheAfterInfo(card), key, SetToList(found))
           /\ tag_counts' = CountFound(tag_counts, found)
           /\ type_counts' = CountFound(type_counts, info.type_line)
           /\ pc' = IF FinallyRaises(InfoCached(card), {hit}) THEN "aborted" ELSE "count"
    /\ card_no' = card_no + 1
    /\ UNCHANGED <<reported, printed>>
    /\ UNCHANGED <<selVars, prev, fetchVars, served, last, ncalls, spotifyVars, menuVars>>

\* after the loop: cache.close() and the two tallies are printed
PrintTallies ==
    /\ pc = "count"
    /\ card_no > Len(cards)
    /\ printed' = [tags |-> tag_counts, types |-> type_counts]
    /\ pc' = "printed"
    /\ UNCHANGED <<tag_counts, type_counts, info_cached, tags_cached, card_no, reported>>
    /\ UNCHANGED <<selVars, prev, fetchVars, cacheVars, spotifyVars, menuVars>>

InitCount ==
    /\ counts = NoCounts
    /\ df = <<>>
    /\ rules = EmptyDict
    /\ exclude_map = EmptyDict
    /\ tally = EmptyDict
    /\ selected = <<>>
    /\ i = 1
    /\ result = NoResult
    /\ prev = NoResult
    /\ pc = "count"
    /\ cards \in CountCardFiles
    /\ t_tags = {}
    /\ t_types = {}
    /\ site = EmptyDict
    /\ completed = <<>>
    /\ result_map = EmptyDict
    /\ raw_tags_list = <<>>
    /\ cache \in PreviousCaches
    /\ served = <<>>
    /\ last = NoCall
    /\ ncalls = 0
    /\ \E tags \in TargetTagFiles : tag_counts = [t \in tags |-> 0]
    /\ \E types \in TargetTypeFiles : type_counts = [t \in types |-> 0]
    /\ info_cached = FALSE
    /\ tags_cached = Unbound
    /\ card_no = 1
    /\ reported = {}
    /\ printed = EmptyDict
    /\ SpotifyIdle
    /\ MenuIdle

NextCount ==
    \/ CardInfoLookupRaises
    \/ TagLookupRaises
    \/ CardCounted
    \/ PrintTallies

SpecCount == InitCount /\ [][NextCount]_vars

\* ------------------------------- spotify_client.py: search_artists_by_genre
\* genre.lower().strip()
GenreNormalized(genre) ==
    CASE genre = "Drum And Bass " -> "drum and bass"
      [] OTHER -> genre

\* genre_normalized.replace(" ", "_")
CacheKey(genre) ==
    CASE GenreNormalized(genre) = "drum and bass" -> "drum_and_bass"
      [] OTHER -> GenreNormalized(genre)

\* cache_dir / f"artists_{cache_key}.json"
ArtistsFile(genre) == <<"artists", CacheKey(genre)>>

\* Faulty variant: a file exactly 24 hours old still counts as fresh.
FreshInclusive(f) == f \in DOMAIN files /\ now - files[f].mtime <= Day

\* cache_file.exists() and time.time() - st_mtime < 86400
Fresh(f) == f \in DOMAIN files /\ now - files[f].mtime < Day

\* key=(popularity, followers, name), reverse=True
RanksBefore(x, y) ==
    \/ x.popularity > y.popularity
    \/ x.popularity = y.popularity /\ x.followers > y.followers

\* sorted(artists_dict.values(), key=..., reverse=True)
SortedArtists(S) ==
    [r \in 1..Cardinality(S) |->
        CHOOSE x \in S : Cardinality({y \in S : RanksBefore(y, x)}) = r - 1]

\* with open(cache_file, "w"): the file holds the data, written now
WriteFile(fs, f, data) == Store(fs, f, [mtime |-> now, data |-> data])

\* search_artists_by_genre(genre), cache file fresh: return json.load(f)
SearchServedFromCache(genre) ==
    /\ pc = "search"
    /\ Fresh(ArtistsFile(genre))
    /\ sp_last' = [nth |-> 1 - sp_last.nth, genre |-> genre, searches |-> 0,
                   value |-> files[ArtistsFile(genre)].data]
    /\ UNCHANGED <<now, files, catalog, call, artists_sorted_desc,
                   artist_track_lists, track_assignments, pass_pos, returned>>
    /\ UNCHANGED <<selVars, pc, prev, fetchVars, cacheVars, countVars, menuVars>>

\* search_artists_by_genre(genre), no fresh file: three search terms of two
\* pages each (a failed first page ends its term, so between 3 and 6 searches
\* are sent), the matching artists are sorted, written to the cache file and
\* returned
SearchQueriesApi(genre, found, searches) ==
    /\ pc = "search"
    /\ ~ Fresh(ArtistsFile(genre))
    /\ files' = WriteFile(files, ArtistsFile(genre), SortedArtists(found))
    /\ sp_last' = [nth |-> 1 - sp_last.nth, genre |-> genre, searches |-> searches,
                   value |-> SortedArtists(found)]
    /\ UNCHANGED <<now, catalog, call, artists_sorted_desc,
                   artist_track_lists, track_assignments, pass_pos, returned>>
    /\ UNCHANGED <<selVars, pc, prev, fetchVars, cacheVars, countVars, menuVars>>

\* clear_cache(): every *.json file of the cache directory is unlinked
ClearCache ==
    /\ pc = "search"
    /\ files' = EmptyDict
    /\ UNCHANGED <<now, sp_last, catalog, call, artists_sorted_desc,
                   artist_track_lists, track_assignments, pass_pos, returned>>
    /\ UNCHANGED <<selVars, pc, prev, fetchVars, cacheVars, countVars, menuVars>>

\* time passes between two calls
Tick ==
    /\ pc = "search"
    /\ \E t \in Times : t > now /\ now' = t
    /\ UNCHANGED <<files, sp_last, catalog, call, artists_sorted_desc,
                   artist_track_lists, track_assignments, pass_pos, returned>>
    /\ UNCHANGED <<selVars, pc, prev, fetchVars, cacheVars, countVars, menuVars>>

InitGenre ==
    /\ counts = NoCounts
    /\ df = <<>>
    /\ rules = EmptyDict
    /\ exclude_map = EmptyDict
    /\ tally = EmptyDict
    /\ selected = <<>>
    /\ i = 1
    /\ result = NoResult
    /\ prev = NoResult
    /\ pc = "search"
    /\ FetchIdle
    /\ CacheIdle
    /\ CountIdle
    /\ MenuIdle
    /\ now = 0
    /\ files = EmptyDict
    /\ sp_last = NoSearch
    /\ catalog = EmptyDict
    /\ call = EmptyDict
    /\ artists_sorted_desc = <<>>
    /\ artist_track_lists = EmptyDict
    /\ track_assignments = EmptyDict
    /\ pass_pos = 1
    /\ returned = EmptyDict

NextGenre ==
    \/ \E genre \in GenreArgs : SearchServedFromCache(genre)
    \/ \E genre \in GenreArgs, found \in SUBSET ArtistPool, searches \in {3, 6} :
          SearchQueriesApi(genre, found, searches)
    \/ ClearCache
    \/ Tick

SpecGenre == InitGenre /\ [][NextGenre]_vars

\* ----------------------- spotify_client.py: get_top_tracks_from_top_artists
\* cache_dir / f"top_tracks_top_artists_{cache_key}.json"
TopTracksFile(genre) == <<"top_tracks_top_artists", CacheKey(genre)>>

\* artists = self.search_artists_by_genre(genre, limit=100)
NestedSearch(genre, found) ==
    IF Fresh(ArtistsFile(genre))
        THEN [value |-> files[ArtistsFile(genre)].data, searches |-> 0, files |-> files]
        ELSE [value |-> SortedArtists(found), searches |-> 6,
              files |-> WriteFile(files, ArtistsFile(genre), SortedArtists(found))]

\* sorted(seq, key=followers, reverse=True): stable, ties keep their order
SortedByFollowersDesc(seq) ==
    LET Before(x, y) == \/ seq[x].followers > seq[y].followers
                        \/ seq[x].followers = seq[y].followers /\ x < y
    IN [r \in 1..Len(seq) |->
          seq[CHOOSE x \in 1..Len(seq) :
                  Cardinality({y \in 1..Len(seq) : Before(y, x)}) = r - 1]]

\* sorted(seq, key=followers): stable, ties keep their order
SortedByFollowersAsc(seq) ==
    LET Before(x, y) == \/ seq[x].followers < seq[y].followers
                        \/ seq[x].followers = seq[y].followers /\ x < y
    IN [r \in 1..Len(seq) |->
          seq[CHOOSE x \in 1..Len(seq) :
                  Cardinality({y \in 1..Len(seq) : Before(y, x)}) = r - 1]]

\* seq[:n] for n >= 0
Take(seq, n) == [r \in 1..(IF n < Len(seq) THEN n ELSE Len(seq)) |-> seq[r]]

\* min(tracks_per_artist, 10)
CappedTracksPerArtist(n) == IF n < 10 THEN n ELSE 10

\* Faulty variant: the second and third pass go through the artists most
\* followed first.
ArtistsMostFollowedFirst == artists_sorted_desc

\* artists_sorted_asc = sorted(artists_sorted_desc, key=followers)
ArtistsSortedAsc == SortedByFollowersAsc(artists_sorted_desc)

\* the dict appended to assigned_tracks
TrackEntry(track_id, artist) ==
    [id |-> track_id, artist_id |-> artist.id, artist_followers |-> artist.followers]

\* [t for t in assigned_tracks if t["id"] != track_id]
WithoutTrack(assigned, track_id) == SelectSeq(assigned, LAMBDA t : t.id # track_id)

\* lists with the assigned_tracks of one artist replaced
WithAssigned(lists, artist_id, assigned) ==
    [a \in DOMAIN lists |->
        IF a = artist_id
            THEN [lists[a] EXCEPT !.assigned_tracks = assigned]
            ELSE lists[a]]

\* any(t["id"] == track_id for t in assigned_tracks)
Holds(assigned, track_id) == \E p \in DOMAIN assigned : assigned[p].id = track_id

\* tracks_per_artist = min(tracks_per_artist, 10), for the running call
Quota == CappedTracksPerArtist(call.tracks_per_artist)

\* Faulty variant: no track counts as already assigned.
CreditedNever(asg, track_id) == FALSE

\* track_id in track_assignments
Credited(asg, track_id) == track_id \in DOMAIN asg

\* Faulty variant: the artist with more followers takes the track over.
MayStealUpward(artist, credit) == artist.followers > credit.followers

\* if artist["followers"] < assigned_to["followers"]
MaySteal(artist, credit) == artist.followers < credit.followers

\* the track is appended to the artist's assigned_tracks and credited to it
GiveTrack(st, artist, track_id) ==
    [lists |-> WithAssigned(st.lists, artist.id,
                   Append(st.lists[artist.id].assigned_tracks, TrackEntry(track_id, artist))),
     asg |-> Store(st.asg, track_id, [id |-> artist.id, followers |-> artist.followers])]

\* the track is removed from the assigned_tracks of the artist it is credited to
TakeTrack(st, track_id) ==
    [lists |-> WithAssigned(st.lists, st.asg[track_id].id,
                   WithoutTrack(st.lists[st.asg[track_id].id].assigned_tracks, track_id)),
     asg |-> st.asg]

\* second pass, one artist: while len(assigned_tracks) < tracks_per_artist
\* and track_idx < len(top_tracks)
RECURSIVE AssignLoop(_, _, _)
AssignLoop(artist, track_idx, st) ==
    LET mine == st.lists[artist.id].assigned_tracks
        top  == st.lists[artist.id].top_tracks
    IN IF ~ (Len(mine) < Quota /\ track_idx <= Len(top))
          THEN st
          ELSE IF Credited(st.asg, top[track_idx])
                  THEN IF MaySteal(artist, st.asg[top[track_idx]])
                          THEN AssignLoop(artist, track_idx + 1,
                                   GiveTrack(TakeTrack(st, top[track_idx]), artist, top[track_idx]))
                          ELSE AssignLoop(artist, track_idx + 1, st)
                  ELSE AssignLoop(artist, track_idx + 1, GiveTrack(st, artist, top[track_idx]))

\* third pass, one artist: for track in top_tracks, until the quota is full
RECURSIVE BackfillLoop(_, _, _)
BackfillLoop(artist, track_idx, st) ==
    LET mine == st.lists[artist.id].assigned_tracks
        top  == st.lists[artist.id].top_tracks
    IN IF track_idx > Len(top) \/ Len(mine) >= Quota
          THEN st
          ELSE IF Holds(mine, top[track_idx]) \/ Credited(st.asg, top[track_idx])
                  THEN BackfillLoop(artist, track_idx + 1, st)
                  ELSE BackfillLoop(artist, track_idx + 1, GiveTrack(st, artist, top[track_idx]))

\* for artist_data in artist_track_lists.values(): all_tracks.extend(...)
\* (the dict keeps the order of the first pass)
RECURSIVE AllTracks(_)
AllTracks(k) ==
    IF k > Len(artists_sorted_desc)
        THEN <<>>
        ELSE (IF artists_sorted_desc[k].id \in DOMAIN artist_track_lists
                 THEN artist_track_lists[artists_sorted_desc[k].id].assigned_tracks
                 ELSE <<>>) \o AllTracks(k + 1)

\* get_top_tracks_from_top_artists, cache file fresh: return json.load(f)
PlaylistServedFromCache(args) ==
    /\ pc = "playlist"
    /\ Fresh(TopTracksFile(args.genre))
    /\ returned' = [args |-> args, cached |-> TRUE,
                    value |-> files[TopTracksFile(args.genre)].data]
    /\ UNCHANGED <<now, files, sp_last, catalog, call, artists_sorted_desc,
                   artist_track_lists, track_assignments, pass_pos>>
    /\ UNCHANGED <<selVars, pc, prev, fetchVars, cacheVars, countVars, menuVars>>

\* no fresh file and search_artists_by_genre finds nobody: return []
PlaylistNoArtists(args, found) ==
    /\ pc = "playlist"
    /\ ~ Fresh(TopTracksFile(args.genre))
    /\ \E srch \in {NestedSearch(args.genre, found)} :
        /\ srch.value = <<>>
        /\ files' = srch.files
        /\ sp_last' = [nth |-> 1 - sp_last.nth, genre |-> args.genre,
                       searches |-> srch.searches, value |-> <<>>]
    /\ returned' = [args |-> args, cached |-> FALSE,
                    value |-> <<>>]
    /\ UNCHANGED <<now, catalog, call, artists_sorted_desc,
                   artist_track_lists, track_assignments, pass_pos>>
    /\ UNCHANGED <<selVars, pc, prev, fetchVars, cacheVars, countVars, menuVars>>

\* no fresh file: the artists are searched, the num_artists most followed are
\* kept, and the first pass fetches the top tracks of each; the artists in
\* failed raise and get no entry
PlaylistFirstPass(args, found, failed) ==
    /\ pc = "playlist"
    /\ ~ Fresh(TopTracksFile(args.genre))
    /\ \E srch \in {NestedSearch(args.genre, found)} :
        /\ srch.value # <<>>
        /\ files' = srch.files
        /\ sp_last' = [nth |-> 1 - sp_last.nth, genre |-> args.genre,
                       searches |-> srch.searches, value |-> srch.value]
        /\ \E kept \in {Take(SortedByFollowersDesc(srch.value), args.num_artists)} :
            /\ failed \subseteq {kept[k].id : k \in DOMAIN kept}
            /\ artists_sorted_desc' = kept
            /\ artist_track_lists' =
                  [a \in {kept[k].id : k \in DOMAIN kept} \ failed |->
                      [top_tracks |-> catalog[a], assigned_tracks |-> <<>>]]
    /\ call' = args
    /\ track_assignments' = EmptyDict
    /\ pass_pos' = 1
    /\ pc' = "assign"
    /\ UNCHANGED <<now, catalog, returned>>
    /\ UNCHANGED <<selVars, prev, fetchVars, cacheVars, countVars, menuVars>>

\* the dicts as they stand before an artist is processed
PassState == [lists |-> artist_track_lists, asg |-> track_assignments]

\* second pass, the artist at pass_pos of artists_sorted_asc
AssignArtist ==
    /\ pc = "assign"
    /\ \E artist \in {ArtistsSortedAsc[pass_pos]} :
        \E st \in {IF artist.id \in DOMAIN artist_track_lists
                      THEN AssignLoop(artist, 1, PassState)
                      ELSE PassState} :
            /\ artist_track_lists' = st.lists
            /\ track_assignments' = st.asg
    /\ IF pass_pos < Len(artists_sorted_desc)
          THEN pass_pos' = pass_pos + 1 /\ pc' = pc
          ELSE pass_pos' = 1 /\ pc' = "backfill"
    /\ UNCHANGED <<now, files, sp_last, catalog, call, artists_sorted_desc, returned>>
    /\ UNCHANGED <<selVars, prev, fetchVars, cacheVars, countVars, menuVars>>

\* third pass, the artist at pass_pos of artists_sorted_asc
BackfillArtist ==
    /\ pc = "backfill"
    /\ \E artist \in {ArtistsSortedAsc[pass_pos]} :
        \E st \in {IF artist.id \in DOMAIN artist_track_lists
                      THEN BackfillLoop(artist, 1, PassState)
                      ELSE PassState} :
            /\ artist_track_lists' = st.lists
            /\ track_assignments' = st.asg
    /\ IF pass_pos < Len(artists_sorted_desc)
          THEN pass_pos' = pass_pos + 1 /\ pc' = pc
          ELSE pass_pos' = 1 /\ pc' = "collect"
    /\ UNCHANGED <<now, files, sp_last, catalog, call, artists_sorted_desc, returned>>
    /\ UNCHANGED <<selVars, prev, fetchVars, cacheVars, countVars, menuVars>>

\* all_tracks is collected, written to the cache file and returned; the
\* locals of the call are gone
CollectAndReturn ==
    /\ pc = "collect"
    /\ \E all_tracks \in {AllTracks(1)} :
        /\ files' = WriteFile(files, TopTracksFile(call.genre), all_tracks)
        /\ returned' = [args |-> call,
                        cached |-> FALSE, value |-> all_tracks]
    /\ pc' = "playlist"
    /\ call' = EmptyDict
    /\ artists_sorted_desc' = <<>>
    /\ artist_track_lists' = EmptyDict
    /\ track_assignments' = EmptyDict
    /\ UNCHANGED <<now, sp_last, catalog, pass_pos>>
    /\ UNCHANGED <<selVars, prev, fetchVars, cacheVars, countVars, menuVars>>

InitPlaylist ==
    /\ counts = NoCounts
    /\ df = <<>>
    /\ rules = EmptyDict
    /\ exclude_map = EmptyDict
    /\ tally = EmptyDict
    /\ selected = <<>>
    /\ i = 1
    /\ result = NoResult
    /\ prev = NoResult
    /\ pc = "playlist"
    /\ FetchIdle
    /\ CacheIdle
    /\ CountIdle
    /\ MenuIdle
    /\ now = 0
    /\ files = EmptyDict
    /\ sp_last = NoSearch
    /\ catalog \in Catalogs
    /\ call = EmptyDict
    /\ artists_sorted_desc = <<>>
    /\ artist_track_lists = EmptyDict
    /\ track_assignments = EmptyDict
    /\ pass_pos = 1
    /\ returned = NoPlaylist

NextPlaylist ==
    \/ \E args \in PlaylistArgs : PlaylistServedFromCache(args)
    \/ \E args \in PlaylistArgs, found \in PlaylistFinds : PlaylistNoArtists(args, found)
    \/ \E args \in PlaylistArgs, found \in PlaylistFinds, failed \in SUBSET ArtistIds :
          PlaylistFirstPass(args, found, failed)
    \/ AssignArtist
    \/ BackfillArtist
    \/ CollectAndReturn

SpecPlaylist == InitPlaylist /\ [][NextPlaylist]_vars

\* ------------------------------------------- main.py: playlist-builder menu
\* str.strip() on the lines the model uses
Strip(line) ==
    CASE line = "  " -> ""
      [] line = " 10 " -> "10"
      [] line = " jazz " -> "jazz"
      [] OTHER -> line

\* the texts int() accepts
IsInt(text) == text \in {"0", "1", "7", "10", "11", "50", "51"}

\* int(value)
IntOf(text) ==
    CASE text = "0" -> 0
      [] text = "1" -> 1
      [] text = "7" -> 7
      [] text = "10" -> 10
      [] text = "11" -> 11
      [] text = "50" -> 50
      [] text = "51" -> 51

\* one turn of the loop of get_number_input: the number returned for the
\* line typed, or Retry when the loop asks again
GetNumberInput(line, min_val, max_val) ==
    IF Strip(line) = ""
        THEN 10
        ELSE IF ~ IsInt(Strip(line))
                THEN Retry
                ELSE IF min_val <= IntOf(Strip(line)) /\ IntOf(Strip(line)) <= max_val
                        THEN IntOf(Strip(line))
                        ELSE Retry

\* genre = input(...).strip(); if not genre: return
EnterGenre(line) ==
    /\ pc = "menu"
    /\ menu_genre' = Strip(line)
    /\ pc' = IF Strip(line) = "" THEN "closed" ELSE "ask_artists"
    /\ UNCHANGED <<typed_artists, typed_tracks, num_artists, tracks_per_artist, passed>>
    /\ UNCHANGED <<selVars, prev, fetchVars, cacheVars, countVars, spotifyVars>>

\* num_artists = get_number_input(..., 1, 50); if num_artists == 10: 50
AnswerArtists(line) ==
    /\ pc = "ask_artists"
    /\ typed_artists' = line
    /\ IF GetNumberInput(line, 1, 50) = Retry
          THEN UNCHANGED <<num_artists, pc>>
          ELSE /\ num_artists' = IF GetNumberInput(line, 1, 50) = 10
                                    THEN 50 ELSE GetNumberInput(line, 1, 50)
               /\ pc' = "ask_tracks"
    /\ UNCHANGED <<menu_genre, typed_tracks, tracks_per_artist, passed>>
    /\ UNCHANGED <<selVars, prev, fetchVars, cacheVars, countVars, spotifyVars>>

\* tracks_per_artist = get_number_input(..., 1, 10); if it == 10: 5
AnswerTracks(line) ==
    /\ pc = "ask_tracks"
    /\ typed_tracks' = line
    /\ IF GetNumberInput(line, 1, 10) = Retry
          THEN UNCHANGED <<tracks_per_artist, pc>>
          ELSE /\ tracks_per_artist' = IF GetNumberInput(line, 1, 10) = 10
                                          THEN 5 ELSE GetNumberInput(line, 1, 10)
               /\ pc' = "call"
    /\ UNCHANGED <<menu_genre, typed_artists, num_artists, passed>>
    /\ UNCHANGED <<selVars, prev, fetchVars, cacheVars, countVars, spotifyVars>>

\* explorer.get_top_tracks_from_top_artists(genre, num_artists, tracks_per_artist)
CallExplorer ==
    /\ pc = "call"
    /\ passed' = [genre |-> menu_genre, num_artists |-> num_artists,
                  tracks_per_artist |-> tracks_per_artist]
    /\ pc' = "called"
    /\ UNCHANGED <<menu_genre, typed_artists, typed_tracks, num_artists, tracks_per_artist>>
    /\ UNCHANGED <<selVars, prev, fetchVars, cacheVars, countVars, spotifyVars>>

InitMenu ==
    /\ counts = NoCounts
    /\ df = <<>>
    /\ rules = EmptyDict
    /\ exclude_map = EmptyDict
    /\ tally = EmptyDict
    /\ selected = <<>>
    /\ i = 1
    /\ result = NoResult
    /\ prev = NoResult
    /\ pc = "menu"
    /\ FetchIdle
    /\ CacheIdle
    /\ CountIdle
    /\ SpotifyIdle
    /\ MenuIdle

NextMenu ==
    \/ \E line \in GenreLines : EnterGenre(line)
    \/ \E line \in TypedLines : AnswerArtists(line)
    \/ \E line \in TypedLines : AnswerTracks(line)
    \/ CallExplorer

SpecMenu == InitMenu /\ [][NextMenu]_vars

\* ============================================================== properties
\* Helpers of the properties below, stated on the variables alone.
SelectedSet == {selected[j] : j \in 1..Len(selected)}
MinimumsMet == \A k \in DOMAIN rules : tally[k] >= rules[k].min
RowsWith(k) == {j \in 1..Len(df) : k \in df[j]}
ExcludedOn(j, k) == k \in DOMAIN exclude_map /\ exclude_map[k] \cap df[j] # {}
CappedOn(j) == \E m \in DOMAIN rules : rules[m].max # None /\ m \in df[j]

\* C1: for every attribute whose rule has a finite maximum m, tally <= m
\* after every row of the scan, also for rules with min > max or max = 0.
C1_TallyWithinMax ==
    \A k \in DOMAIN rules : rules[k].max # None => tally[k] <= rules[k].max

\* A finished scan in which an attribute with min > max was filled up to its
\* maximum and a later row carrying it was rejected.
C1_Witness ==
    /\ pc = "done"
    /\ \E k \in DOMAIN rules :
        /\ rules[k].max # None
        /\ rules[k].min > rules[k].max
        /\ rules[k].max >= 1
        /\ tally[k] = rules[k].max
        /\ RowsWith(k) \ SelectedSet # {}

\* C2: right after an acceptance that leaves every tally at or above its
\* minimum the scan stops and nothing changes afterwards; the scan never
\* stops with rows left unless every minimum is met by an acceptance.
C2_StopsExactlyWhenMet ==
    [][ /\ (pc = "done" => vars' = vars)
        /\ (Len(selected') > Len(selected) /\ MinimumsMet' => pc' = "done")
        /\ (pc = "scan" /\ pc' = "done" /\ i' <= Len(df)
                => MinimumsMet' /\ Len(selected') > Len(selected)) ]_vars

\* A scan that stopped early, after its second acceptance, with rows left.
C2_Witness ==
    /\ pc = "done"
    /\ i <= Len(df)
    /\ Len(selected) >= 2
    /\ MinimumsMet

\* C3: the selection is a subsequence of the table: strictly increasing
\* positions of scanned rows, none repeated, ending with the terminating row
\* when the scan stopped early; the returned list is that selection.
C3_SelectionIsSubsequence ==
    /\ \A j \in 1..Len(selected) : selected[j] \in 1..Len(df) /\ selected[j] < i
    /\ \A j, k \in 1..Len(selected) : j < k => selected[j] < selected[k]
    /\ pc = "done" =>
        /\ result.selected = selected
        /\ i <= Len(df) => selected # <<>> /\ selected[Len(selected)] = i - 1

\* A returned selection of at least two rows with a skipped row in between.
C3_Witness ==
    /\ pc = "done"
    /\ Len(result.selected) >= 2
    /\ result.selected[2] > result.selected[1] + 1

\* C4: the scan can always take its next step, and when fewer rows carry an
\* attribute than its minimum asks for, the scan ends at the end of the
\* table with that tally below the minimum and with every row selected that
\* carries the attribute, has no excluding and no capped column true.
C4_UnreachableMinimumScansAll ==
    /\ pc = "scan" => ENABLED Next
    /\ pc = "done" /\ ~ MinimumsMet => i = Len(df) + 1
    /\ \A k \in DOMAIN rules :
        pc = "done" /\ Cardinality(RowsWith(k)) < rules[k].min =>
            /\ i = Len(df) + 1
            /\ tally[k] < rules[k].min
            /\ result.selected = selected
            /\ \A j \in RowsWith(k) :
                ~ ExcludedOn(j, k) /\ ~ CappedOn(j) => j \in SelectedSet

\* A finished scan of at least two rows whose minimum was out of reach: the
\* rows carrying the attribute were all counted and that was not enough.
C4_Witness ==
    /\ pc = "done"
    /\ Len(df) >= 2
    /\ \E k \in DOMAIN rules :
        /\ RowsWith(k) # {}
        /\ Cardinality(RowsWith(k)) < rules[k].min
        /\ tally[k] = Cardinality(RowsWith(k))
        /\ RowsWith(k) \subseteq SelectedSet

\* C5: scanning a row on which an attribute of X's exclusion list is true
\* never increases tally[X].
C5_ExcludedRowNeverCounts ==
    [][ \A X \in DOMAIN rules :
            pc = "scan" /\ i <= Len(df) /\ ExcludedOn(i, X)
                => tally'[X] = tally[X] ]_vars

\* C6: no rule with min > max reaches the selector: rule construction
\* rejects it.
C6_MinAboveMaxRejected ==
    pc \in {"scan", "done"} =>
        \A k \in DOMAIN rules :
            rules[k].max = None \/ rules[k].min <= rules[k].max

C8_ZeroMinimumsSelectNothing ==
    (\A k \in DOMAIN rules : rules[k].min = 0) =>
        /\ selected = <<>>
        /\ \A k \in DOMAIN rules : tally[k] = 0
        /\ pc = "done" => result.selected = <<>> /\ i = Len(df) + 1

\* A finished scan under all-zero minimums where an attribute with room
\* under its maximum was true on some row.
C8_Witness ==
    /\ pc = "done"
    /\ Len(df) >= 2
    /\ \A k \in DOMAIN rules : rules[k].min = 0
    /\ \E k \in DOMAIN rules :
        /\ rules[k].max # None
        /\ rules[k].max >= 1
        /\ RowsWith(k) # {}

\* C9: with no rules the tally is empty, every row is skipped as irrelevant
\* and the returned selection is empty.
C9_EmptyRulesSelectNothing ==
    DOMAIN rules = {} =>
        /\ DOMAIN tally = {}
        /\ selected = <<>>
        /\ pc = "scan" /\ i <= Len(df) => ENABLED SkipIrrelevant
        /\ pc = "done" => result.selected = <<>> /\ i = Len(df) + 1

\* A finished scan with no rules over a table that has true columns.
C9_Witness ==
    /\ pc = "done"
    /\ DOMAIN rules = {}
    /\ Len(df) >= 2
    /\ \E j \in 1..Len(df) : df[j] # {}

\* C10: the tally has one entry per rule attribute, all 0 at the start, and
\* one row changes each entry by 0 or by +1.
C10_TallyStep ==
    /\ DOMAIN tally' = DOMAIN rules
    /\ \A k \in DOMAIN rules : tally'[k] - tally[k] \in {0, 1}

C10_TallyMonotone ==
    /\ DOMAIN tally = DOMAIN rules
    /\ \A k \in DOMAIN rules : tally[k] = 0
    /\ [][C10_TallyStep]_vars

\* A finished scan in which some tally was raised twice.
C10_Witness ==
    /\ pc = "done"
    /\ \E k \in DOMAIN tally : tally[k] >= 2

\* Helpers of the properties about one row, stated on the variables alone.
\* The row being scanned carries the rule attribute k.
CarriedNow(k) == k \in df[i]
\* A rule attribute true on the scanned row has reached its finite maximum.
CappedNow == \E k \in DOMAIN rules :
    rules[k].max # None /\ CarriedNow(k) /\ tally[k] >= rules[k].max
\* The rule attributes the scanned row is needed for and not excluded from.
NeededNow == {k \in DOMAIN rules :
    CarriedNow(k) /\ tally[k] < rules[k].min /\ ~ ExcludedOn(i, k)}
RowScanned == pc = "scan" /\ i <= Len(df)
RowAccepted == Len(selected') = Len(selected) + 1

\* C11: with a single rule, on A with minimum n, a maximum absent or >= n
\* and no exclusion entry for A, the returned selection is exactly the first
\* min(n, q) rows carrying A, q being the number of rows carrying A, and the
\* final tally of A is min(n, q).
C11_SingleRuleTakesFirstRows ==
    \A A \in DOMAIN rules :
        (/\ pc = "done"
         /\ DOMAIN rules = {A}
         /\ A \notin DOMAIN exclude_map
         /\ (rules[A].max = None \/ rules[A].max >= rules[A].min))
        => LET q == Cardinality(RowsWith(A))
               m == IF rules[A].min < q THEN rules[A].min ELSE q
               first == {j \in RowsWith(A) :
                            Cardinality({h \in RowsWith(A) : h <= j}) <= m}
           IN /\ Len(result.selected) = m
              /\ {result.selected[j] : j \in 1..m} = first
              /\ \A j, h \in 1..m : j < h => result.selected[j] < result.selected[h]
              /\ tally[A] = m

\* A single rule asking for two rows over a table with three rows carrying
\* the attribute: the first two are returned.
C11_Witness ==
    /\ pc = "done"
    /\ \E A \in DOMAIN rules :
        /\ DOMAIN rules = {A}
        /\ A \notin DOMAIN exclude_map
        /\ rules[A].min = 2
        /\ rules[A].max = None
        /\ Cardinality(RowsWith(A)) >= 3
        /\ result.selected = <<1, 2>>

\* C12: a row on which every rule attribute that is true and below its
\* minimum is vetoed by an exclusion attribute true on that row is not
\* selected and leaves the tally unchanged.
C12_AllNeededExcludedIsSkipped ==
    [][ (RowScanned /\ \A k \in DOMAIN rules :
            CarriedNow(k) /\ tally[k] < rules[k].min => ExcludedOn(i, k))
        => selected' = selected /\ tally' = tally ]_vars

\* The tutor / tutor-land scenario: the only rows carrying a needed attribute
\* also carry its excluding column; nothing was selected or counted.
C12_Witness ==
    /\ pc = "done"
    /\ selected = <<>>
    /\ \E k \in DOMAIN rules :
        /\ DOMAIN rules = {k}
        /\ rules[k].min >= 1
        /\ rules[k].max = None
        /\ tally[k] = 0
        /\ RowsWith(k) # {}
        /\ \A j \in RowsWith(k) : ExcludedOn(j, k)

\* C17: a scanned row is selected if and only if (1) a rule attribute is
\* true on it, (2) no rule attribute true on it has reached its finite
\* maximum and (3) a rule attribute true on it is below its minimum and not
\* excluded on the row; each attribute satisfying (3) then gains exactly 1.
C17_SelectedIffNeededAndUncapped ==
    [][ RowScanned =>
          /\ RowAccepted <=>
                /\ \E k \in DOMAIN rules : CarriedNow(k)
                /\ ~ CappedNow
                /\ NeededNow # {}
          /\ RowAccepted =>
                /\ selected' = Append(selected, i)
                /\ \A k \in NeededNow : tally'[k] = tally[k] + 1
          /\ ~ RowAccepted => selected' = selected ]_vars

\* A finished scan that accepted one row for two attributes at once and
\* turned another row down.
C17_Witness ==
    /\ pc = "done"
    /\ Len(selected) = 1
    /\ Len(df) >= 2
    /\ \A k \in Attrs : k \in DOMAIN rules /\ rules[k].min = 1 /\ tally[k] = 1
    /\ df[selected[1]] = Attrs
    /\ selected[1] >= 2

\* C18: a row carrying an attribute whose tally has reached its maximum is
\* not selected and raises no tally, also when it carries other attributes
\* that are below their minimum and not excluded.
C18_CappedRowIsVetoed ==
    [][ RowScanned /\ CappedNow => selected' = selected /\ tally' = tally ]_vars

\* A finished scan that turned down a row carrying a capped attribute and a
\* second attribute that was still needed and not excluded on it.
C18_Witness ==
    /\ pc = "done"
    /\ \E j \in 1..Len(df), k, m \in DOMAIN rules :
        /\ k # m
        /\ {k, m} \subseteq df[j]
        /\ j \notin SelectedSet
        /\ rules[k].max # None
        /\ tally[k] = rules[k].max
        /\ rules[m].max = None
        /\ tally[m] < rules[m].min
        /\ ~ ExcludedOn(j, m)

\* C19: when a row is accepted, each rule attribute outside its primary set
\* gains 1 if it is true on the row, has a finite maximum and is below it,
\* whatever the exclusion map says, and is left alone otherwise; so an
\* attribute without maximum never gains an extra.
C19_ExtrasIgnoreExclusions ==
    [][ RowScanned /\ RowAccepted =>
          \A k \in DOMAIN rules \ NeededNow :
              tally'[k] = IF /\ CarriedNow(k)
                             /\ rules[k].max # None
                             /\ tally[k] < rules[k].max
                          THEN tally[k] + 1
                          ELSE tally[k] ]_vars

\* A finished scan in which an attribute with minimum 0 was counted although
\* every row carrying it also carries its excluding column.
C19_Witness ==
    /\ pc = "done"
    /\ \E k \in DOMAIN rules :
        /\ rules[k].min = 0
        /\ rules[k].max # None
        /\ tally[k] >= 1
        /\ \A j \in RowsWith(k) : ExcludedOn(j, k)

\* C20: a row skipped for any of the three reasons leaves the tally, the
\* selection and the result as they were and the scan goes on to the next
\* row.
C20_SkipChangesNothing ==
    [][ (RowScanned /\ \/ ~ \E k \in DOMAIN rules : CarriedNow(k)
                       \/ CappedNow
                       \/ NeededNow = {})
        => /\ tally' = tally
           /\ selected' = selected
           /\ result' = result
           /\ pc' = "scan"
           /\ i' = i + 1 ]_vars

\* A finished scan that went to the end of the table although every minimum
\* was met all along: a row carrying a rule attribute was skipped without
\* ending the scan, as was a row carrying none.
C20_Witness ==
    /\ pc = "done"
    /\ i = Len(df) + 1
    /\ selected = <<>>
    /\ MinimumsMet
    /\ \E j, h \in 1..Len(df) :
        /\ j < h
        /\ df[j] \cap DOMAIN rules # {}
        /\ df[h] \cap DOMAIN rules = {}
        /\ df[h] # {}

\* C13: a second call of build_deck_indices on the same table, rules and
\* exclusion map returns the same selection and ends with the same tally as
\* the first: nothing of the first call is left when the second starts.
C13_SecondCallSameOutcome ==
    /\ pc = "done" /\ DOMAIN prev # {} => result = prev.result /\ tally = prev.tally
    /\ pc = "scan" /\ DOMAIN prev # {} /\ i = 1 =>
            selected = <<>> /\ \A k \in DOMAIN rules : tally[k] = 0

\* A second call has finished after a first one that selected and counted.
C13_Witness ==
    /\ pc = "done"
    /\ DOMAIN prev # {}
    /\ Len(prev.result.selected) >= 2
    /\ \E k \in DOMAIN rules : prev.tally[k] >= 2

\* The rule value counts.json gives for k: the "types" entry when there is
\* one (it is assigned last), else the "tags" entry.
RawRule(k) == IF k \in DOMAIN counts.types THEN counts.types[k] ELSE counts.tags[k]

\* C15: once the rules are built, every attribute named in counts.json has a
\* rule in canonical shape: a bare integer n gives min = n and no maximum; an
\* object gives its "min" (0 when absent) and its "max" (none when absent).
C15_RulesAreNormalised ==
    pc # "config" =>
        /\ DOMAIN rules = DOMAIN counts.tags \cup DOMAIN counts.types
        /\ \A k \in DOMAIN rules :
            /\ DOMAIN rules[k] = {"min", "max"}
            /\ RawRule(k).kind = "int" =>
                    rules[k].min = RawRule(k).n /\ rules[k].max = None
            /\ RawRule(k).kind = "dict" =>
                /\ rules[k].min = IF "min" \in DOMAIN RawRule(k).d
                                     THEN RawRule(k).d["min"] ELSE 0
                /\ rules[k].max = IF "max" \in DOMAIN RawRule(k).d
                                     THEN RawRule(k).d["max"] ELSE None

\* The selector runs on rules built from a bare integer and from an object
\* that has a "max" but no "min".
C15_Witness ==
    /\ pc = "scan"
    /\ \E k, m \in DOMAIN rules :
        /\ RawRule(k).kind = "int"
        /\ RawRule(k).n = 2
        /\ RawRule(m).kind = "dict"
        /\ DOMAIN RawRule(m).d = {"max"}
        /\ rules[m] = [min |-> 0, max |-> 1]

\* The row the fetch of a card yields, read off the services' answers.
FetchedRow(c) == (site[c].tags \cap t_tags) \cup (site[c].types \cap t_types)

\* C14 (as claimed): whatever order the fetches complete in, the table
\* handed to the selector has len(cards) rows and row i is the row fetched
\* for cards[i].
C14_TableIsFetchedRowsInCardOrder ==
    pc = "call" =>
        /\ Len(df) = Len(cards)
        /\ \A idx \in 1..Len(df) : df[idx] = FetchedRow(cards[idx])

\* C14 (amended): whatever order the fetches complete in, the table handed
\* to the selector has len(cards) rows and row i is the row fetched for
\* cards[i], with its "tutor" flag cleared when the raw tags of that card
\* hold "tutor-land".
C14_TableInCardOrderTutorCleared ==
    /\ pc = "clear" =>
        /\ Len(df) = Len(cards)
        /\ \A idx \in 1..Len(df) : df[idx] = FetchedRow(cards[idx])
    /\ pc = "call" =>
        /\ Len(df) = Len(cards)
        /\ \A idx \in 1..Len(df) :
            df[idx] = IF "tutor-land" \in site[cards[idx]].tags
                         THEN FetchedRow(cards[idx]) \ {"tutor"}
                         ELSE FetchedRow(cards[idx])

\* The table is handed over after the second card completed before the
\* first, the two cards having different rows.
C14_Witness ==
    /\ pc = "call"
    /\ Len(cards) >= 2
    /\ completed[1] = 2
    /\ cards[1] # cards[2]
    /\ FetchedRow(cards[1]) # FetchedRow(cards[2])
    /\ df[1] # df[2]

\* Helpers of the cache property, stated on the variables alone: the key the
\* arguments of a call denote, and the successful fetches logged for a key.
KeyOfArgs(args) == <<args[1], LowerCase(args[2]), args[3]>>
CallArgs ==
    {<<"info", n, "">> : n \in InfoNameArgs}
        \cup {<<"tags", c, n>> : c \in SetCodeArgs, n \in NumberArgs}
FetchesFor(key) == {j \in 1..Len(served) : KeyOfArgs(served[j].args) = key}

\* C16: over any sequence of get_card_info / get_tagger_tags calls on one
\* cache, each key (card name compared case-insensitively; set code
\* lower-cased plus collector number) is fetched successfully at most once:
\* every later call with the same key sends no HTTP request, does not raise
\* and returns the value the fetch returned.
C16_OneFetchPerKey ==
    [][/\ \A a \in CallArgs : Cardinality(FetchesFor(KeyOfArgs(a))') <= 1
       /\ (ncalls' = ncalls + 1 /\ FetchesFor(KeyOfArgs(last'.args)) # {}) =>
            /\ last'.requests = 0
            /\ ~last'.raised
            /\ \A j \in FetchesFor(KeyOfArgs(last'.args)) : last'.value = served[j].answer
            /\ served' = served]_vars

\* A value fetched under one spelling of a key ("Bolt", "LEA") was returned
\* from the cache, without a request, to the last call, which spelled the
\* same key differently ("bolt", "lea").
C16_Witness ==
    /\ ncalls = MaxCalls
    /\ \E j \in 1..Len(served) :
          /\ served[j].args # last.args
          /\ KeyOfArgs(served[j].args) = KeyOfArgs(last.args)
          /\ last.requests = 0
          /\ last.value = served[j].answer

\* The selected rows that have attribute k true.
SelectedWith(k) == {j \in SelectedSet : k \in df[j]}

\* C28: for every attribute with a finite maximum, at every point of the scan
\* tally[k] is the number of rows selected so far that have k true, whether
\* or not an exclusion of k applies to them; hence that number never exceeds
\* the maximum of k.
C28_CappedTallyCountsSelectedRows ==
    \A k \in DOMAIN rules :
        rules[k].max # None =>
            /\ tally[k] = Cardinality(SelectedWith(k))
            /\ Cardinality(SelectedWith(k)) <= rules[k].max

\* A selected row carries a capped attribute k together with an attribute
\* that excludes k, and was counted toward k all the same.
C28_Witness ==
    /\ pc = "done"
    /\ \E k \in DOMAIN rules :
          /\ rules[k].max # None
          /\ \E j \in SelectedWith(k) : ExcludedOn(j, k)
          /\ tally[k] = Cardinality(SelectedWith(k))
          /\ tally[k] >= 1

\* C29: for every attribute with no maximum, tally[k] never exceeds the
\* minimum of k: once the minimum is met, further selected rows having k true
\* are not counted.
C29_UncappedTallyWithinMin ==
    \A k \in DOMAIN rules : rules[k].max = None => tally[k] <= rules[k].min

\* The scan ended with more selected rows having k true than the tally of
\* the uncapped attribute k, which stands at its minimum.
C29_Witness ==
    /\ pc = "done"
    /\ \E k \in DOMAIN rules :
          /\ rules[k].max = None
          /\ tally[k] = rules[k].min
          /\ Cardinality(SelectedWith(k)) > tally[k]

\* The table rows of the cards whose fetched raw tags contain 'tutor-land'.
TutorLandRows == {j \in 1..Len(cards) : "tutor-land" \in site[cards[j]].tags}
\* The table has been handed to build_deck_indices.
TableHandedOver == pc \in {"call", "scan", "done"}

\* C21: before selection runs in main, every table row whose raw fetched
\* tags contain 'tutor-land' has its 'tutor' flag false, so such a row is
\* never counted toward the 'tutor' rule and is selected only when another
\* rule needs it, also with an empty exclusion map and 'tutor-land' untracked.
C21_TutorLandNeverCountsAsTutor ==
    [][/\ TableHandedOver' =>
            /\ Len(df') = Len(cards')
            /\ \A j \in TutorLandRows' : "tutor" \notin df'[j]
       /\ (TableHandedOver /\ RowAccepted /\ i \in TutorLandRows) =>
            /\ "tutor" \in DOMAIN rules => tally'["tutor"] = tally["tutor"]
            /\ \E k \in DOMAIN rules \ {"tutor"} :
                  k \in FetchedRow(cards[i]) /\ tally[k] < rules[k].min]_vars

\* With an empty exclusion map and 'tutor-land' untracked, a card fetched
\* with both 'tutor' and 'tutor-land' was selected for the 'land' rule while
\* the 'tutor' rule is still unmet and its tally is zero.
C21_Witness ==
    /\ pc = "done"
    /\ exclude_map = EmptyDict
    /\ "tutor" \in t_tags
    /\ "tutor-land" \notin t_tags
    /\ "tutor" \in DOMAIN rules
    /\ tally["tutor"] = 0
    /\ \E j \in SelectedSet \cap TutorLandRows : "tutor" \in site[cards[j]].tags

\* C26: in mtg_tagger_count.py main, a card whose info or tag lookup raises
\* is reported and skipped without aborting the run: the tag and type counts
\* are left unchanged by that card, the loop goes on to the next card, and
\* the tallies printed at the end, after the last card, are the counts.
C26_FailedCardIsSkipped ==
    [][/\ pc' # "aborted"
       /\ reported' # reported =>
            /\ reported' = reported \cup {card_no}
            /\ tag_counts' = tag_counts
            /\ type_counts' = type_counts
            /\ card_no' = card_no + 1
            /\ pc' = "count"
       /\ pc' = "printed" =>
            /\ card_no' = Len(cards) + 1
            /\ printed' = [tags |-> tag_counts', types |-> type_counts']]_vars

\* The tallies were printed after a run in which the lookup of the first
\* card raised and a later card was counted toward a target tag.
C26_Witness ==
    /\ pc = "printed"
    /\ reported = {1}
    /\ Len(cards) >= 2
    /\ \E t \in DOMAIN printed.tags : printed.tags[t] >= 1

\* The cache file a genre is looked up in, by the normalisation the claim
\* states: lower-case, stripped, spaces to underscores.
GenreFile(genre) ==
    <<"artists",
      IF genre \in {"Drum And Bass ", "drum and bass", "drum_and_bass"}
          THEN "drum_and_bass" ELSE genre>>

\* C25: search_artists_by_genre serves from cache for 24 hours: when the
\* cache file of the genre's key was written less than 86400 seconds ago the
\* call returns the cached list, makes no search API call and leaves the
\* files alone; when the file is 86400 seconds old or older, or is missing
\* (as after clear_cache), the call queries the API and rewrites the file
\* with what it returns; clear_cache leaves no file behind.
C25_GenreCacheLastsOneDay ==
    [][/\ sp_last'.nth # sp_last.nth =>
            LET f == GenreFile(sp_last'.genre)
            IN IF f \in DOMAIN files /\ now - files[f].mtime < Day
                  THEN /\ sp_last'.searches = 0
                       /\ sp_last'.value = files[f].data
                       /\ files' = files
                  ELSE /\ sp_last'.searches > 0
                       /\ f \in DOMAIN files'
                       /\ files'[f].mtime = now
                       /\ files'[f].data = sp_last'.value
       /\ (sp_last' = sp_last /\ now' = now) => files' = EmptyDict]_vars

\* A call spelled "Drum And Bass " was served, without a search, from a file
\* 86399 seconds old.
C25_Witness ==
    /\ sp_last.genre = "Drum And Bass "
    /\ sp_last.searches = 0
    /\ GenreFile(sp_last.genre) \in DOMAIN files
    /\ now - files[GenreFile(sp_last.genre)].mtime = Day - 1
    /\ sp_last.value = files[GenreFile(sp_last.genre)].data
    /\ Len(sp_last.value) >= 2

\* Helpers of the playlist properties, stated on the variables alone.
TracksOf(seq) == {seq[p] : p \in DOMAIN seq}
HoldersOf(t) ==
    {a \in DOMAIN artist_track_lists :
        \E p \in DOMAIN artist_track_lists[a].assigned_tracks :
            artist_track_lists[a].assigned_tracks[p].id = t}
TimesHeld(a, t) ==
    Cardinality({p \in DOMAIN artist_track_lists[a].assigned_tracks :
                    artist_track_lists[a].assigned_tracks[p].id = t})
FollowersOf(a) == (CHOOSE x \in ArtistPool : x.id = a).followers
ArtistsIn(v) == {v[p].artist_id : p \in DOMAIN v}
TracksCredited(v, a) == {p \in DOMAIN v : v[p].artist_id = a}
SmallerOf(x, y) == IF x < y THEN x ELSE y

\* C22 (as claimed): the list a call returns, cached or not, holds at most
\* min(tracks_per_artist, 10) tracks of any one artist and tracks of at most
\* num_artists artists, for the arguments of that call.
C22_ResultWithinCallArguments ==
    DOMAIN returned.args # {} =>
        /\ Cardinality(ArtistsIn(returned.value)) <= returned.args.num_artists
        /\ \A a \in ArtistsIn(returned.value) :
              Cardinality(TracksCredited(returned.value, a))
                  <= SmallerOf(returned.args.tracks_per_artist, 10)

\* C23: on a non-cached run, once the assignment and backfill passes are
\* over every track id is held by at most one artist, once, and
\* track_assignments names exactly that artist; no track id appears twice in
\* the list the run returns.
C23_EachTrackHeldOnce ==
    /\ pc = "collect" =>
          \A t \in TrackIds :
              /\ Cardinality(HoldersOf(t)) <= 1
              /\ \A a \in HoldersOf(t) : TimesHeld(a, t) = 1
              /\ t \in DOMAIN track_assignments <=> HoldersOf(t) # {}
              /\ t \in DOMAIN track_assignments => HoldersOf(t) = {track_assignments[t].id}
    /\ ~ returned.cached =>
          \A p, q \in DOMAIN returned.value :
              p # q => returned.value[p].id # returned.value[q].id

\* The passes are over and a track that two processed artists have in their
\* top tracks is held by one of them.
C23_Witness ==
    /\ pc = "collect"
    /\ \E t \in TrackIds :
          /\ HoldersOf(t) # {}
          /\ \E a, b \in DOMAIN artist_track_lists :
                /\ a # b
                /\ t \in TracksOf(artist_track_lists[a].top_tracks)
                /\ t \in TracksOf(artist_track_lists[b].top_tracks)

\* C24: least-followed artists get first pick of shared tracks: when the
\* passes of a non-cached run are over and a track is credited to artist B,
\* every processed artist A with strictly fewer followers than B that has
\* the track in its top tracks holds its full quota of assigned tracks.
C24_LeastFollowedPickFirst ==
    pc = "collect" =>
        \A b \in DOMAIN artist_track_lists, t \in TrackIds :
            b \in HoldersOf(t) =>
                \A a \in DOMAIN artist_track_lists :
                    (/\ FollowersOf(a) < FollowersOf(b)
                     /\ t \in TracksOf(artist_track_lists[a].top_tracks)) =>
                        Len(artist_track_lists[a].assigned_tracks)
                            = SmallerOf(call.tracks_per_artist, 10)

\* A track is credited to an artist although a processed artist with fewer
\* followers has it in its top tracks, that artist's quota being full.
C24_Witness ==
    /\ pc = "collect"
    /\ \E a, b \in DOMAIN artist_track_lists, t \in TrackIds :
          /\ FollowersOf(a) < FollowersOf(b)
          /\ b \in HoldersOf(t)
          /\ t \in TracksOf(artist_track_lists[a].top_tracks)
          /\ Len(artist_track_lists[a].assigned_tracks) = call.tracks_per_artist

\* C27 (as claimed): the number of top artists passed to
\* get_top_tracks_from_top_artists is the integer typed whenever it is in
\* 1..50 and is 50 when Enter was pressed; tracks per artist is the integer
\* typed whenever it is in 1..10 and is 5 when Enter was pressed.
C27_PassedEqualsTyped ==
    pc = "called" =>
        /\ passed.num_artists =
              IF Strip(typed_artists) = "" THEN 50 ELSE IntOf(Strip(typed_artists))
        /\ passed.tracks_per_artist =
              IF Strip(typed_tracks) = "" THEN 5 ELSE IntOf(Strip(typed_tracks))
====
